---- MODULE Spec2Model ----
(***************************************************************************)
(* crypto_box (src/crypto_box/src/lib.rs): SalsaBox = X25519 key agreement *)
(* + HSalsa20 key derivation + the XSalsa20Poly1305 AEAD.                  *)
(*                                                                         *)
(* lib.rs holds the composition only: SalsaBox::new and the four Aead      *)
(* methods, each a delegation to the wrapped XSalsa20Poly1305.  The        *)
(* primitives it calls (x25519_dalek, salsa20::hsalsa20, xsalsa20poly1305, *)
(* the aead trait's provided methods) are not in lib.rs; they are modelled *)
(* from the specification's description of them as small deterministic     *)
(* stand-ins: a byte is narrowed to one bit, X25519 is exponentiation in   *)
(* the order-11 subgroup of Z_23^*, HSalsa20 an affine bijection, the      *)
(* XSalsa20 keystream a 16-bit word per block, and the Poly1305 tag an     *)
(* injective encoding of (ciphertext, aad, lengths) masked with the        *)
(* one-time key (an ideal MAC on the bounded message space).               *)
(***************************************************************************)
EXTENDS Integers, Sequences, FiniteSets, TLC

\* ------------------------------------------------------------------ bounds
MaxLen == 1
MaxAad == 1
MaxNonce == 1
MaxSecret == 1

\* -------------------------------------------------------- program constants
\* type TagSize = U16
TagSize == 16

Byte == 0..1
SecretKeyBytes == 0..MaxSecret
Nonces == 0..MaxNonce
BoundedSeq(S, n) == UNION {[1..k -> S] : k \in 0..n}
Plaintexts == BoundedSeq(Byte, MaxLen)
Aads == BoundedSeq(Byte, MaxAad)

Xor(a, b) == (a + b) % 2
Bit(x, j) == (x \div (2 ^ j)) % 2

\* ------------------------------------------------------------- primitives
\* The field of the key-agreement stand-in: Z_23^*, whose subgroup of order
\* 11 is generated by the base point 9 (cofactor 2).
FieldPrime == 23
BasePoint == 9

RECURSIVE PowMod(_, _)
PowMod(b, e) == IF e = 0 THEN 1 ELSE (b * PowMod(b, e - 1)) % FieldPrime

\* Scalar clamping: the bits above the scalar width are dropped, the scalar
\* is made a multiple of the cofactor and its top bit is set.
Clamp(s) == 2 * (s % 2) + 4

\* x25519_dalek::StaticSecret::diffie_hellman: every point is accepted.
diffie_hellman(secret, point) == PowMod(point % FieldPrime, Clamp(secret))

\* PublicKey::from(&StaticSecret): scalar multiplication of the base point.
X25519PublicFrom(secret) == PowMod(BasePoint, Clamp(secret))

\* salsa20::hsalsa20(key, input): a fixed one-way whitening; here an affine
\* bijection of the key space for each input.
hsalsa20(key, input) == (7 * key + 3 * input + 5) % FieldPrime

\* XSalsa20 keystream: block blk of the stream for (key, nonce) is a 16-bit
\* word; multiplication by an odd number is a bijection of 16-bit words, so
\* distinct (key, nonce, blk) give distinct blocks.
KeystreamBlock(key, nonce, blk) ==
    ((1 + key + FieldPrime * nonce + 128 * blk) * 40503) % 65536

\* Keystream byte i (0-based) of the stream for (key, nonce).
Keystream(key, nonce, i) == Bit(KeystreamBlock(key, nonce, i \div 16), i % 16)

\* Block 0 keys the MAC; the message is encrypted from block 1 on.
apply_keystream(key, nonce, buf) ==
    [i \in 1..Len(buf) |-> Xor(buf[i], Keystream(key, nonce, 16 + (i - 1)))]

Zeros(n) == [i \in 1..n |-> 0]

\* The MAC input: both lengths (two bits each), then ciphertext, then aad,
\* zero-padded to the tag size.
MacInput(ad, ct) ==
    LET body == <<Bit(Len(ct), 0), Bit(Len(ct), 1), Bit(Len(ad), 0), Bit(Len(ad), 1)>>
                \o ct \o ad
    IN  body \o Zeros(TagSize - Len(body))

\* The tag over (ciphertext, aad, lengths) under the one-time key taken from
\* keystream block 0.
compute_tag(key, nonce, ad, ct) ==
    LET m == MacInput(ad, ct)
    IN  [i \in 1..TagSize |-> Xor(m[i], Keystream(key, nonce, i - 1))]

\* ------------------------------------------ XSalsa20Poly1305 (the wrapped AEAD)
\* A growable buffer is its bytes and its capacity: extend_from_slice fails
\* beyond the capacity.
Fits(n, cap) == n <= cap
Buf(data, cap) == [data |-> data, cap |-> cap]

\* Encrypts the slice in place and returns the tag computed over the
\* ciphertext and the associated data.
XSalsa20Poly1305_encrypt_in_place_detached(key, nonce, associated_data, buffer) ==
    LET ct == apply_keystream(key, nonce, buffer)
    IN  [res |-> "ok", buffer |-> ct, tag |-> compute_tag(key, nonce, associated_data, ct)]

\* Verifies the tag over the buffer first; only then decrypts in place.
XSalsa20Poly1305_decrypt_in_place_detached(key, nonce, associated_data, buffer, tag) ==
    IF compute_tag(key, nonce, associated_data, buffer) = tag
    THEN [res |-> "ok", buffer |-> apply_keystream(key, nonce, buffer)]
    ELSE [res |-> "err", buffer |-> buffer]

\* Makes room for the tag (an error when the buffer cannot grow), encrypts
\* the message bytes and places the tag after the ciphertext.
XSalsa20Poly1305_encrypt_in_place(key, nonce, associated_data, buffer) ==
    IF ~Fits(Len(buffer.data) + TagSize, buffer.cap)
    THEN [res |-> "err", buffer |-> buffer]
    ELSE LET r == XSalsa20Poly1305_encrypt_in_place_detached(
                      key, nonce, associated_data, buffer.data)
         IN  [res |-> "ok", buffer |-> Buf(r.buffer \o r.tag, buffer.cap)]

\* Splits the trailing tag off, verifies and decrypts the rest, truncates.
XSalsa20Poly1305_decrypt_in_place(key, nonce, associated_data, buffer) ==
    IF Len(buffer.data) < TagSize
    THEN [res |-> "err", buffer |-> buffer]
    ELSE LET n   == Len(buffer.data) - TagSize
             ct  == SubSeq(buffer.data, 1, n)
             tag == SubSeq(buffer.data, n + 1, n + TagSize)
             r   == XSalsa20Poly1305_decrypt_in_place_detached(
                        key, nonce, associated_data, ct, tag)
         IN  IF r.res = "ok"
             THEN [res |-> "ok", buffer |-> Buf(r.buffer, buffer.cap)]
             ELSE [res |-> "err", buffer |-> buffer]

\* ------------------------------------------------------------------ lib.rs
\* SecretKey::public_key
public_key(secret_key) == X25519PublicFrom(secret_key)

\* The second argument of hsalsa20 in SalsaBox::new: GenericArray::default().
ZeroInput == 0

\* Faulty variant: the peer's public key bytes are hashed instead of the shared secret.
SalsaBoxNew_PeerKeyAsShared(peer_public_key, secret_key) ==
    [key |-> hsalsa20(peer_public_key % FieldPrime, ZeroInput)]

\* Faulty variant: the own secret key is passed as the second argument of hsalsa20.
SalsaBoxNew_SecretAsInput(peer_public_key, secret_key) ==
    [key |-> hsalsa20(diffie_hellman(secret_key, peer_public_key), 1 + secret_key)]

\* Faulty variant: the raw shared secret is used as the cipher key.
SalsaBoxNew_RawShared(peer_public_key, secret_key) ==
    [key |-> diffie_hellman(secret_key, peer_public_key)]

\* SalsaBox::new
SalsaBoxNew(peer_public_key, secret_key) ==
    LET shared_secret == diffie_hellman(secret_key, peer_public_key)
        key           == hsalsa20(shared_secret, ZeroInput)
    IN  [key |-> key]

\* Faulty variant: the associated data is not passed on.
encrypt_in_place_NoAad(self, nonce, associated_data, buffer) ==
    XSalsa20Poly1305_encrypt_in_place(self.key, nonce, <<>>, buffer)

\* Faulty variant: the detached method is called on the buffer and its tag dropped.
encrypt_in_place_DropTag(self, nonce, associated_data, buffer) ==
    LET r == XSalsa20Poly1305_encrypt_in_place_detached(
                 self.key, nonce, associated_data, buffer.data)
    IN  [res |-> r.res, buffer |-> Buf(r.buffer, buffer.cap)]

\* Faulty variant: non-empty associated data is refused.
encrypt_in_place_detached_RejectAad(self, nonce, associated_data, buffer) ==
    IF associated_data # <<>>
    THEN [res |-> "err", buffer |-> buffer, tag |-> Zeros(TagSize)]
    ELSE XSalsa20Poly1305_encrypt_in_place_detached(self.key, nonce, associated_data, buffer)

\* Faulty variant: the delegate's Result is dropped and Ok returned.
decrypt_in_place_SwallowError(self, nonce, associated_data, buffer) ==
    LET r == XSalsa20Poly1305_decrypt_in_place(self.key, nonce, associated_data, buffer)
    IN  [res |-> "ok", buffer |-> r.buffer]

\* Faulty variant: the keystream is applied without the tag being looked at (the
\* encrypting method is called, its tag dropped).
decrypt_in_place_detached_Unverified(self, nonce, associated_data, buffer, tag) ==
    LET r == XSalsa20Poly1305_encrypt_in_place_detached(
                 self.key, nonce, associated_data, buffer)
    IN  [res |-> "ok", buffer |-> r.buffer]

\* Faulty variant: the delegate's Result is dropped and Ok returned.
decrypt_in_place_detached_SwallowError(self, nonce, associated_data, buffer, tag) ==
    LET r == XSalsa20Poly1305_decrypt_in_place_detached(
                 self.key, nonce, associated_data, buffer, tag)
    IN  [res |-> "ok", buffer |-> r.buffer]

\* impl Aead for SalsaBox
encrypt_in_place(self, nonce, associated_data, buffer) ==
    XSalsa20Poly1305_encrypt_in_place(self.key, nonce, associated_data, buffer)

encrypt_in_place_detached(self, nonce, associated_data, buffer) ==
    XSalsa20Poly1305_encrypt_in_place_detached(self.key, nonce, associated_data, buffer)

decrypt_in_place(self, nonce, associated_data, buffer) ==
    XSalsa20Poly1305_decrypt_in_place(self.key, nonce, associated_data, buffer)

decrypt_in_place_detached(self, nonce, associated_data, buffer, tag) ==
    XSalsa20Poly1305_decrypt_in_place_detached(self.key, nonce, associated_data, buffer, tag)

\* Aead::encrypt / Aead::decrypt (provided by the trait): copy the input into
\* a fresh Vec with room for the tag, run the in-place method on it, return
\* the Vec.  A Result's value is a set: empty for Err, the Vec for Ok.
NoValue == {}
Some(v) == {v}
encrypt(self, nonce, plaintext, associated_data) ==
    LET r == encrypt_in_place(self, nonce, associated_data,
                              Buf(plaintext, Len(plaintext) + TagSize))
    IN  [res |-> r.res, value |-> IF r.res = "ok" THEN Some(r.buffer.data) ELSE NoValue]

decrypt(self, nonce, ciphertext, associated_data) ==
    LET r == decrypt_in_place(self, nonce, associated_data,
                              Buf(ciphertext, Len(ciphertext)))
    IN  [res |-> r.res, value |-> IF r.res = "ok" THEN Some(r.buffer.data) ELSE NoValue]

\* ------------------------------------------------------------------- state
\* box:    the constructed SalsaBoxes (each holds only its session key)
\* pair:   for each box, the (peer public key, own secret key) it was built from
\* buffer: the caller's buffer (bytes and capacity)
\* tag:    the detached tag the caller holds
\* output: the value of the last whole-buffer call's Result
\* result: the last call's Result ("none" before any call)
\* call:   the inputs of the calls made on the current message
\* thr:    each thread's call in progress on the shared box: its position,
\*         its inputs, its own buffer and tag, its result
\* cipher: the cipher instances of the calls in progress (key, nonce,
\*         keystream position)
VARIABLES box, pair, buffer, tag, output, result, call, thr, cipher

vars == <<box, pair, buffer, tag, output, result, call, thr, cipher>>
seqvars == <<buffer, tag, output, result, call>>

NumThreads == 2
Threads == 1..NumThreads

IdleThread ==
    [pc |-> "idle", op |-> "none", nonce |-> 0, ad |-> <<>>, buf |-> <<>>,
     tag |-> <<>>, res |-> "none", inbuf |-> <<>>, intag |-> <<>>, k |-> 0,
     overlapped |-> FALSE]

NoCipher == [key |-> 0, nonce |-> 0, pos |-> 0]

BoxIds == 1..2

\* Peer public keys: those of the secret keys, and one that is no honest
\* party's (the low-order point 0, accepted like any other 32 bytes).
PublicKeys == {public_key(s) : s \in SecretKeyBytes} \cup {0}

NoCall ==
    [phase |-> "idle", op |-> "none", box |-> 0, nonce |-> 0, ad |-> <<>>,
     msg |-> <<>>, tampered |-> FALSE,
     dop |-> "none", dbox |-> 0, dad |-> <<>>,
     pre |-> <<>>, pretag |-> <<>>]

Init ==
    /\ box = <<>>
    /\ pair = <<>>
    /\ buffer = Buf(<<>>, 0)
    /\ tag = <<>>
    /\ output = NoValue
    /\ result = "none"
    /\ call = NoCall
    /\ thr = [t \in Threads |-> IdleThread]
    /\ cipher = [t \in Threads |-> NoCipher]

\* Box::new(&peer_public_key, &secret_key)
NewBox(b, pk, sk) ==
    /\ call.phase = "idle"
    /\ b \notin DOMAIN box
    /\ box' = box @@ (b :> SalsaBoxNew(pk, sk))
    /\ pair' = pair @@ (b :> [pk |-> pk, sk |-> sk])
    /\ UNCHANGED <<buffer, tag, output, result, call, thr, cipher>>

Sealed(op, b, n, d, p, res) ==
    [NoCall EXCEPT !.phase = IF res = "ok" THEN "sealed" ELSE "failed",
                   !.op = op, !.box = b, !.nonce = n, !.ad = d, !.msg = p]

\* box.encrypt(nonce, Payload { msg, aad }): the caller keeps the returned
\* Vec as the message to send.
Encrypt(b, n, d, p) ==
    /\ call.phase = "idle"
    /\ b \in DOMAIN box
    /\ LET r == encrypt(box[b], n, p, d)
       IN  /\ result' = r.res
           /\ output' = r.value
           /\ buffer' = IF r.res = "ok"
                        THEN Buf(CHOOSE v \in r.value : TRUE, Len(p) + TagSize)
                        ELSE Buf(p, Len(p))
           /\ call' = Sealed("encrypt", b, n, d, p, r.res)
    /\ UNCHANGED <<box, pair, tag, thr, cipher>>

\* box.encrypt_in_place(nonce, aad, &mut buffer), the buffer holding the
\* plaintext and having capacity cap.
EncryptInPlace(b, n, d, p, cap) ==
    /\ call.phase = "idle"
    /\ b \in DOMAIN box
    /\ LET r == encrypt_in_place(box[b], n, d, Buf(p, cap))
       IN  /\ result' = r.res
           /\ buffer' = r.buffer
           /\ call' = Sealed("in_place", b, n, d, p, r.res)
    /\ output' = NoValue
    /\ UNCHANGED <<box, pair, tag, thr, cipher>>

\* box.encrypt_in_place_detached(nonce, aad, &mut buffer[..])
EncryptDetached(b, n, d, p) ==
    /\ call.phase = "idle"
    /\ b \in DOMAIN box
    /\ LET r == encrypt_in_place_detached(box[b], n, d, p)
       IN  /\ result' = r.res
           /\ buffer' = Buf(r.buffer, Len(p))
           /\ tag' = r.tag
           /\ call' = Sealed("detached", b, n, d, p, r.res)
    /\ output' = NoValue
    /\ UNCHANGED <<box, pair, thr, cipher>>

Flip(s, i) == [s EXCEPT ![i] = Xor(@, 1)]

\* In transit, one bit of the ciphertext bytes or of the tag is flipped:
\* position i of the buffer followed by the detached tag.
Tamper(i) ==
    /\ call.phase = "sealed"
    /\ ~call.tampered
    /\ i \in 1..(Len(buffer.data) + Len(tag))
    /\ IF i <= Len(buffer.data)
       THEN /\ buffer' = [buffer EXCEPT !.data = Flip(@, i)]
            /\ tag' = tag
       ELSE /\ tag' = Flip(tag, i - Len(buffer.data))
            /\ buffer' = buffer
    /\ call' = [call EXCEPT !.tampered = TRUE]
    /\ UNCHANGED <<box, pair, output, result, thr, cipher>>

Opened(dop, b, d) ==
    [call EXCEPT !.phase = "opened", !.dop = dop, !.dbox = b,
                 !.dad = d, !.pre = buffer.data, !.pretag = tag]

\* box.decrypt(nonce, Payload { msg: &buffer, aad }), under the nonce that was
\* sent with the message.
Decrypt(b, d) ==
    /\ call.phase = "sealed"
    /\ call.op # "detached"
    /\ b \in DOMAIN box
    /\ LET r == decrypt(box[b], call.nonce, buffer.data, d)
       IN  /\ result' = r.res
           /\ output' = r.value
    /\ call' = Opened("decrypt", b, d)
    /\ UNCHANGED <<box, pair, buffer, tag, thr, cipher>>

\* box.decrypt_in_place(nonce, aad, &mut buffer)
DecryptInPlace(b, d) ==
    /\ call.phase = "sealed"
    /\ call.op # "detached"
    /\ b \in DOMAIN box
    /\ LET r == decrypt_in_place(box[b], call.nonce, d, buffer)
       IN  /\ result' = r.res
           /\ buffer' = r.buffer
    /\ output' = NoValue
    /\ call' = Opened("in_place", b, d)
    /\ UNCHANGED <<box, pair, tag, thr, cipher>>

\* box.decrypt_in_place_detached(nonce, aad, &mut buffer[..], &tag)
DecryptDetached(b, d) ==
    /\ call.phase = "sealed"
    /\ call.op = "detached"
    /\ b \in DOMAIN box
    /\ LET r == decrypt_in_place_detached(box[b], call.nonce, d, buffer.data, tag)
       IN  /\ result' = r.res
           /\ buffer' = [buffer EXCEPT !.data = r.buffer]
    /\ output' = NoValue
    /\ call' = Opened("detached", b, d)
    /\ UNCHANGED <<box, pair, tag, thr, cipher>>

\* The caller is done with the message; the boxes are kept for the next one.
Reset ==
    /\ call.phase \in {"opened", "failed"}
    /\ buffer' = Buf(<<>>, 0)
    /\ tag' = <<>>
    /\ output' = NoValue
    /\ result' = "none"
    /\ call' = NoCall
    /\ UNCHANGED <<box, pair, thr, cipher>>

\* The calls on one message.
Seal(b) ==
    \E n \in Nonces, d \in Aads, p \in Plaintexts :
        \/ Encrypt(b, n, d, p)
        \/ \E cap \in {Len(p), Len(p) + TagSize} : EncryptInPlace(b, n, d, p, cap)
        \/ EncryptDetached(b, n, d, p)

Open(b, ads) ==
    \E d \in ads :
        \/ Decrypt(b, d)
        \/ DecryptInPlace(b, d)
        \/ DecryptDetached(b, d)

\* Two parties: box 1 is the sender's, box 2 the receiver's, each built from
\* any peer public key and any secret key.
Sender == 1
Receiver == 2

Next ==
    \/ \E b \in BoxIds, pk \in PublicKeys, sk \in SecretKeyBytes : NewBox(b, pk, sk)
    \/ Seal(Sender)
    \/ Open(Receiver, Aads)
    \/ Reset

Spec == Init /\ [][Next]_vars

\* One box, used to encrypt and to decrypt under the same nonce and
\* associated data, and a channel that may flip one bit of what is sent.
InitTamper ==
    /\ \E pk \in PublicKeys, sk \in SecretKeyBytes :
          /\ box = (Sender :> SalsaBoxNew(pk, sk))
          /\ pair = (Sender :> [pk |-> pk, sk |-> sk])
    /\ buffer = Buf(<<>>, 0)
    /\ tag = <<>>
    /\ output = NoValue
    /\ result = "none"
    /\ call = NoCall
    /\ thr = [t \in Threads |-> IdleThread]
    /\ cipher = [t \in Threads |-> NoCipher]

NextTamper ==
    \/ Seal(Sender)
    \/ \E i \in 1..(MaxLen + TagSize) : Tamper(i)
    \/ Open(Sender, {call.ad})
    \/ Reset

SpecTamper == InitTamper /\ [][NextTamper]_vars

\* ------------------------------------------------- concurrent use of a box
\* Several threads call the detached methods on one shared box, each on its
\* own buffer.  A call is a sequence of steps: the cipher for (key, nonce) is
\* set up, the tag is verified (decryption), the keystream is applied byte by
\* byte, the tag is computed (encryption).
ConcLen == 2

\* Faulty variant: one cipher instance, kept with the box, serves every call.
CipherOf_Shared(t) == Sender

\* The cipher instance a call works with: its own, made for the call.
CipherOf(t) == t

ConcMsg == [i \in 1..ConcLen |-> i % 2]

\* The calls a thread may make: an encryption, the decryption of a valid
\* message, the decryption of a message whose tag has one bit flipped.
ConcCalls(self) ==
    LET sealed == encrypt_in_place_detached(self, MaxNonce, <<>>, ConcMsg)
    IN  { [op |-> "encrypt", nonce |-> 0, ad |-> <<1>>, buf |-> ConcMsg, tag |-> <<>>],
          [op |-> "decrypt", nonce |-> MaxNonce, ad |-> <<>>,
           buf |-> sealed.buffer, tag |-> sealed.tag],
          [op |-> "decrypt", nonce |-> MaxNonce, ad |-> <<>>,
           buf |-> sealed.buffer, tag |-> Flip(sealed.tag, TagSize)] }

MidCall == {"init", "verify", "stream", "mac"}

\* The step of thread t ran while another thread's call was in progress.
Step(t, rec) ==
    [rec EXCEPT !.overlapped = @ \/ \E u \in Threads \ {t} : thr[u].pc \in MidCall]

InitConc ==
    /\ \E pk \in PublicKeys, sk \in SecretKeyBytes :
          /\ box = (Sender :> SalsaBoxNew(pk, sk))
          /\ pair = (Sender :> [pk |-> pk, sk |-> sk])
    /\ buffer = Buf(<<>>, 0)
    /\ tag = <<>>
    /\ output = NoValue
    /\ result = "none"
    /\ call = NoCall
    /\ thr = [t \in Threads |-> IdleThread]
    /\ cipher = [t \in Threads |-> NoCipher]

\* Thread t calls box.encrypt_in_place_detached / decrypt_in_place_detached.
CallBegin(t, c) ==
    /\ thr[t].pc = "idle"
    /\ thr' = [thr EXCEPT ![t] =
                 Step(t, [IdleThread EXCEPT !.pc = "init", !.op = c.op,
                              !.nonce = c.nonce, !.ad = c.ad, !.buf = c.buf,
                              !.tag = c.tag, !.inbuf = c.buf, !.intag = c.tag])]
    /\ UNCHANGED <<box, pair, seqvars, cipher>>

\* The call's cipher is set up from the box's key and the nonce.
CipherInit(t) ==
    /\ thr[t].pc = "init"
    /\ cipher' = [cipher EXCEPT ![CipherOf(t)] =
                    [key |-> box[Sender].key, nonce |-> thr[t].nonce, pos |-> 0]]
    /\ thr' = [thr EXCEPT ![t] =
                 Step(t, [thr[t] EXCEPT !.pc = IF thr[t].op = "encrypt" THEN "stream" ELSE "verify"])]
    /\ UNCHANGED <<box, pair, seqvars>>

\* Decryption: the expected tag is computed over the buffer and compared.
Verify(t) ==
    /\ thr[t].pc = "verify"
    /\ LET c  == cipher[CipherOf(t)]
           ok == compute_tag(c.key, c.nonce, thr[t].ad, thr[t].buf) = thr[t].tag
       IN  thr' = [thr EXCEPT ![t] =
                     Step(t, IF ok THEN [thr[t] EXCEPT !.pc = "stream"]
                                   ELSE [thr[t] EXCEPT !.pc = "done", !.res = "err"])]
    /\ UNCHANGED <<box, pair, seqvars, cipher>>

\* One more byte of the buffer is XORed with the next keystream byte.
StreamByte(t) ==
    /\ thr[t].pc = "stream"
    /\ thr[t].k < Len(thr[t].buf)
    /\ LET c == cipher[CipherOf(t)]
           i == thr[t].k + 1
       IN  /\ thr' = [thr EXCEPT ![t] =
                        Step(t, [thr[t] EXCEPT !.buf[i] = Xor(@, Keystream(c.key, c.nonce, 16 + c.pos)),
                                          !.k = i])]
           /\ cipher' = [cipher EXCEPT ![CipherOf(t)].pos = @ + 1]
    /\ UNCHANGED <<box, pair, seqvars>>

\* The whole buffer is done: decryption returns Ok, encryption goes on to
\* the tag.
StreamEnd(t) ==
    /\ thr[t].pc = "stream"
    /\ thr[t].k = Len(thr[t].buf)
    /\ thr' = [thr EXCEPT ![t] =
                 Step(t, IF thr[t].op = "encrypt" THEN [thr[t] EXCEPT !.pc = "mac"]
                                             ELSE [thr[t] EXCEPT !.pc = "done", !.res = "ok"])]
    /\ UNCHANGED <<box, pair, seqvars, cipher>>

\* Encryption: the tag is computed over the ciphertext and returned.
Mac(t) ==
    /\ thr[t].pc = "mac"
    /\ LET c == cipher[CipherOf(t)]
       IN  thr' = [thr EXCEPT ![t] =
                     Step(t, [thr[t] EXCEPT !.pc = "done", !.res = "ok",
                                       !.tag = compute_tag(c.key, c.nonce, thr[t].ad, thr[t].buf)])]
    /\ UNCHANGED <<box, pair, seqvars, cipher>>

\* The caller has taken the result; the call's cipher is dropped.
CallEnd(t) ==
    /\ thr[t].pc = "done"
    /\ thr' = [thr EXCEPT ![t] = IdleThread]
    /\ cipher' = [cipher EXCEPT ![CipherOf(t)] = NoCipher]
    /\ UNCHANGED <<box, pair, seqvars>>

NextConc ==
    \E t \in Threads :
        \/ \E c \in ConcCalls(box[Sender]) : CallBegin(t, c)
        \/ CipherInit(t)
        \/ Verify(t)
        \/ StreamByte(t)
        \/ StreamEnd(t)
        \/ Mac(t)
        \/ CallEnd(t)

SpecConc == InitConc /\ [][NextConc]_vars

\* ------------------------------------------------------------------ claims
Constructed(b) == b \in DOMAIN box

\* The boxes a and b were built from reciprocal key pairs: each one's peer
\* public key is the public key of the other's secret key.
Reciprocal(a, b) ==
    /\ Constructed(a) /\ Constructed(b)
    /\ pair[a].pk = public_key(pair[b].sk)
    /\ pair[b].pk = public_key(pair[a].sk)

OpenedCall == call.phase = "opened"

\* What the decrypting call handed back to the caller as plaintext.
Returned(p) ==
    IF call.dop = "decrypt" THEN output = Some(p) ELSE buffer.data = p

\* C1 (round trip): a message encrypted under (N, P, D) by the box of one key
\* pair and decrypted under (N, D) by the box of the reciprocal key pair
\* decrypts successfully to exactly P.
C1_RoundTrip ==
    (OpenedCall /\ Reciprocal(call.box, call.dbox) /\ call.dad = call.ad)
        => (result = "ok" /\ Returned(call.msg))

C1_Witness ==
    /\ OpenedCall /\ Reciprocal(call.box, call.dbox) /\ call.dad = call.ad
    /\ pair[call.box].sk # pair[call.dbox].sk
    /\ call.op = "encrypt" /\ call.dop = "decrypt"
    /\ Len(call.msg) = MaxLen /\ call.ad # <<>>
    /\ result = "ok" /\ output = Some(call.msg)

\* C2 (DH symmetry): two boxes built from reciprocal key pairs hold the same
\* session key.
C2_DHSymmetry ==
    \A a \in BoxIds, b \in BoxIds : Reciprocal(a, b) => box[a].key = box[b].key

C2_Witness ==
    /\ Reciprocal(Sender, Receiver)
    /\ pair[Sender].sk # pair[Receiver].sk
    /\ pair[Sender].pk # pair[Receiver].pk

\* C3 (tamper detection): after one bit of the ciphertext bytes or of the tag
\* was flipped, decryption with the same box, nonce and associated data
\* returns an error; no value is returned and the buffer is not decrypted.
C3_TamperDetected ==
    (OpenedCall /\ call.tampered /\ call.dbox = call.box /\ call.dad = call.ad)
        => (result = "err" /\ output = NoValue /\ buffer.data = call.pre)

\* A bit of the ciphertext bytes (not of the tag) was flipped, and the
\* whole-buffer decrypt refused it.
C3_Witness ==
    /\ OpenedCall /\ call.tampered /\ call.dbox = call.box /\ call.dad = call.ad
    /\ call.op = "encrypt" /\ call.dop = "decrypt"
    /\ Len(call.msg) = MaxLen
    /\ SubSeq(call.pre, 1, Len(call.msg))
          # apply_keystream(box[call.box].key, call.nonce, call.msg)
    /\ result = "err"

\* C4 (aad binding): a message encrypted under associated data D1 fails to
\* decrypt under any D2 # D1, the ciphertext and tag being unchanged; D1 or
\* D2 may be empty.
C4_AadBinding ==
    (OpenedCall /\ ~call.tampered /\ call.dad # call.ad) => result = "err"

\* The receiver holds the sender's session key and strips the associated data.
C4_Witness ==
    /\ OpenedCall /\ ~call.tampered
    /\ box[call.dbox].key = box[call.box].key
    /\ call.ad # <<>> /\ call.dad = <<>>
    /\ result = "err"

\* C5 (encryption never fails): every encrypting call returns Ok, whatever
\* the keys, nonce, plaintext and associated data; the one exception is
\* encrypt_in_place on a buffer without room for the tag.
C5_EncryptNeverFails ==
    /\ call.phase = "sealed" => result = "ok"
    /\ call.phase = "failed" =>
          (call.op = "in_place" /\ ~Fits(Len(call.msg) + TagSize, buffer.cap))

C5_Witness ==
    /\ call.phase = "sealed" /\ result = "ok"
    /\ call.op = "detached" /\ call.ad # <<>> /\ Len(call.msg) = MaxLen
    /\ pair[call.box].pk = 0

\* C6 (length accounting): encrypt returns len(P) + 16 bytes, the tag after the
\* ciphertext bytes; encrypt_in_place grows the buffer by 16; a successful
\* decrypt_in_place shrinks it by 16; the detached calls keep its length.
C6_Lengths ==
    /\ (call.phase = "sealed" /\ call.op = "encrypt") =>
          \E v \in output :
              /\ output = Some(v)
              /\ Len(v) = Len(call.msg) + TagSize
              /\ SubSeq(v, Len(call.msg) + 1, Len(v))
                    = compute_tag(box[call.box].key, call.nonce, call.ad,
                                  SubSeq(v, 1, Len(call.msg)))
    /\ (call.phase = "sealed" /\ call.op = "in_place") =>
          Len(buffer.data) = Len(call.msg) + TagSize
    /\ (call.phase = "sealed" /\ call.op = "detached") =>
          (Len(buffer.data) = Len(call.msg) /\ Len(tag) = TagSize)
    /\ (OpenedCall /\ call.dop = "in_place" /\ result = "ok") =>
          Len(buffer.data) = Len(call.pre) - TagSize
    /\ (OpenedCall /\ call.dop = "detached") =>
          Len(buffer.data) = Len(call.pre)

\* An empty plaintext was encrypted in place to 16 bytes and decrypted in
\* place back to none.
C6_Witness ==
    /\ OpenedCall /\ call.op = "in_place" /\ call.dop = "in_place"
    /\ result = "ok" /\ call.msg = <<>>
    /\ Len(call.pre) = TagSize /\ buffer.data = <<>>

\* C7 (failed detached decryption): when the tag given to
\* decrypt_in_place_detached does not verify for (session key, nonce,
\* associated data, buffer), the call returns an error and the buffer holds
\* the bytes it held before the call.
C7_FailedDetachedKeepsBuffer ==
    (/\ OpenedCall /\ call.dop = "detached"
     /\ compute_tag(box[call.dbox].key, call.nonce, call.dad, call.pre) # call.pretag)
        => (result = "err" /\ buffer.data = call.pre)

C7_Witness ==
    /\ OpenedCall /\ call.dop = "detached"
    /\ compute_tag(box[call.dbox].key, call.nonce, call.dad, call.pre) # call.pretag
    /\ Len(call.pre) = MaxLen
    /\ apply_keystream(box[call.dbox].key, call.nonce, call.pre) # call.pre
    /\ result = "err"

\* C8 (wrong-key rejection): a box whose session key differs from the
\* sender's fails to decrypt the message, for every nonce, plaintext and
\* associated data.
C8_WrongKeyRejected ==
    (OpenedCall /\ box[call.dbox].key # box[call.box].key) => result = "err"

C8_Witness ==
    /\ OpenedCall /\ box[call.dbox].key # box[call.box].key
    /\ ~Reciprocal(call.box, call.dbox)
    /\ call.dad = call.ad /\ call.dop = "decrypt"
    /\ result = "err" /\ output = NoValue

\* C9 (session key): in every state, after any calls, each box's key is
\* hsalsa20 of the X25519 shared secret of the pair it was built from, with
\* the all-zero input.
C9_SessionKey ==
    \A b \in BoxIds :
        Constructed(b) =>
            box[b].key = hsalsa20(diffie_hellman(pair[b].sk, pair[b].pk), ZeroInput)

\* Both boxes have been used, the receiver's last call failing.
C9_Witness ==
    /\ OpenedCall /\ result = "err"
    /\ Constructed(Sender) /\ Constructed(Receiver)
    /\ box[Sender].key # diffie_hellman(pair[Sender].sk, pair[Sender].pk)

\* What thread t's call returns, and leaves in its buffer, when it is the
\* only call made on the box.
Alone(t) ==
    IF thr[t].op = "encrypt"
    THEN encrypt_in_place_detached(box[Sender], thr[t].nonce, thr[t].ad, thr[t].inbuf)
    ELSE LET r == decrypt_in_place_detached(box[Sender], thr[t].nonce, thr[t].ad,
                                            thr[t].inbuf, thr[t].intag)
         IN  [res |-> r.res, buffer |-> r.buffer, tag |-> thr[t].intag]

\* C10 (concurrent use of one box): under every interleaving of the threads'
\* steps, each finished call has the result, the buffer and the tag it has
\* when run alone; a call that has not yet written holds its input; the box
\* is as constructed.
C10_ConcurrentAsAlone ==
    /\ box[Sender] = SalsaBoxNew(pair[Sender].pk, pair[Sender].sk)
    /\ \A t \in Threads :
          /\ thr[t].pc \in {"init", "verify"} => thr[t].buf = thr[t].inbuf
          /\ thr[t].pc = "done" =>
                /\ thr[t].res = Alone(t).res
                /\ thr[t].buf = Alone(t).buffer
                /\ thr[t].tag = Alone(t).tag

\* An encryption and a successful decryption, under different nonces, have
\* both finished after running interleaved.
C10_Witness ==
    \E t \in Threads, u \in Threads :
        /\ t # u
        /\ thr[t].pc = "done" /\ thr[u].pc = "done"
        /\ thr[t].overlapped /\ thr[u].overlapped
        /\ thr[t].op = "encrypt" /\ thr[t].res = "ok"
        /\ thr[u].op = "decrypt" /\ thr[u].res = "ok"
        /\ thr[u].buf # thr[u].inbuf

====
